---- MODULE Spec2Model ----
(***************************************************************************)
(* Model of the lint rule typescript/no-empty-object-type as it stands in  *)
(* crates/oxc_linter/src/rules/typescript/no_empty_object_type.rs.         *)
(*                                                                         *)
(* The host linter walks the AST of one file and calls                     *)
(*     NoEmptyObjectType::run(&self, node, ctx)                            *)
(* once per node.  A diagnostic is produced only when run pushes one into  *)
(* ctx.  The rule struct is a unit struct and keeps nothing of the         *)
(* configuration the tester hands over; the configuration is carried here  *)
(* as `config` so that the properties can speak about option values.       *)
(***************************************************************************)
EXTENDS Integers, Sequences, FiniteSets, TLC

VARIABLES config, scope, node, verdict, diagnostics, nruns

vars == <<config, scope, node, verdict, diagnostics, nruns>>

(***************************************************************************)
(* Bounds                                                                  *)
(***************************************************************************)
MaxExtends == 2
MaxMembers == 1
MaxRuns == 2

(***************************************************************************)
(* Identifiers and allowWithName patterns that occur in the fixtures.      *)
(* Identifiers are character sequences so that a pattern is matched by     *)
(* searching, not by comparing whole names.                                *)
(***************************************************************************)
NoName == << >>
NameBase == <<"B", "a", "s", "e">>
NameBaseProps == <<"B", "a", "s", "e", "P", "r", "o", "p", "s">>
Names == {NameBase, NameBaseProps}

NoPattern == [configured |-> FALSE, body |-> << >>, anchoredEnd |-> FALSE]
PatternBase == [configured |-> TRUE, body |-> NameBase, anchoredEnd |-> FALSE]
PatternPropsEnd ==
    [configured |-> TRUE, body |-> <<"P", "r", "o", "p", "s">>, anchoredEnd |-> TRUE]
PatternMismatch ==
    [configured |-> TRUE, body |-> <<"M", "i", "s", "m", "a", "t", "c", "h">>,
     anchoredEnd |-> FALSE]
Patterns == {NoPattern, PatternBase, PatternPropsEnd, PatternMismatch}

AllowInterfacesValues == {"never", "always", "with-single-extends"}
AllowObjectTypesValues == {"never", "always"}

\* The options object of a test case; a missing key takes its default.
Configs ==
    [allowInterfaces : AllowInterfacesValues,
     allowObjectTypes : AllowObjectTypesValues,
     allowWithName : Patterns]

DefaultConfig ==
    [allowInterfaces |-> "never", allowObjectTypes |-> "never", allowWithName |-> NoPattern]

(***************************************************************************)
(* AST nodes the rule is run on                                            *)
(***************************************************************************)
ExtendsTargets == {"PlainInterfaceRef", "ParameterizedRef"}

ExtendsLists == UNION {[1..k -> ExtendsTargets] : k \in 0..MaxExtends}

\* interface <name> [extends <extendsList>] { <members> }
InterfaceNodes ==
    [kind : {"TSInterfaceDeclaration"}, name : Names, members : 0..MaxMembers,
     extendsList : ExtendsLists, enclosingShape : {"None"}]

\* { <members> } written as a type; `name` is the alias the literal is (part of)
\* the value of, NoName when it is not under an alias.
TypeLiteralNodes ==
    [kind : {"TSTypeLiteral"}, name : Names, members : 0..MaxMembers,
     extendsList : {<< >>}, enclosingShape : {"AliasValue", "Union", "Intersection"}]
    \cup
    [kind : {"TSTypeLiteral"}, name : {NoName}, members : 0..MaxMembers,
     extendsList : {<< >>}, enclosingShape : {"Union", "Annotation", "TypeArgument"}]

\* `let value: object;` and `let value: Object;`
OtherNodes ==
    [kind : {"TSObjectKeyword", "TSTypeReference"}, name : {NoName}, members : {0},
     extendsList : {<< >>}, enclosingShape : {"Annotation"}]

Nodes == InterfaceNodes \cup TypeLiteralNodes \cup OtherNodes

NoNode ==
    [kind |-> "None", name |-> NoName, members |-> 0, extendsList |-> << >>,
     enclosingShape |-> "None"]

\* The class statement (if any) that stands next to the interface in the fixture:
\* `class Derived {}`, `class Other {}` or `const derived = class Derived {};`.
Scopes ==
    {[classKind |-> "none", className |-> NoName]}
    \cup [classKind : {"declaration", "expression"}, className : Names]

\* What run can see of the LintContext: the scope information and the
\* diagnostics pushed so far.
LintContext(sc, diags) == [scope |-> sc, diagnostics |-> diags]

(***************************************************************************)
(* Vocabulary of the rule's documentation, used to state the properties    *)
(***************************************************************************)
\* Regular-expression search: the pattern body occurs somewhere in the name,
\* at its end when the pattern closes with `$`.
NamePatternMatch(pattern, name) ==
    /\ pattern.configured
    /\ \E i \in 1..(Len(name) + 1) :
          LET j == i + Len(pattern.body) - 1
          IN  /\ j <= Len(name)
              /\ SubSeq(name, i, j) = pattern.body
              /\ pattern.anchoredEnd => j = Len(name)

\* A class declaration statement of that name stands in the interface's scope.
MergeDetector(name, sc) == sc.classKind = "declaration" /\ sc.className = name

IsInterface(n) == n.kind = "TSInterfaceDeclaration"
IsTypeLiteral(n) == n.kind = "TSTypeLiteral"
IsEmpty(n) == n.members = 0
IsEmptyInterface(n) == IsInterface(n) /\ IsEmpty(n)
IsEmptyLiteral(n) == IsTypeLiteral(n) /\ IsEmpty(n)

\* Only an interface declaration, or an alias whose whole value is the literal,
\* carries a declared name of its own.
IsNamedDeclaration(n) ==
    IsInterface(n) \/ (IsTypeLiteral(n) /\ n.enclosingShape = "AliasValue")

NameExempt(self, n) ==
    IsNamedDeclaration(n) /\ NamePatternMatch(self.allowWithName, n.name)

(***************************************************************************)
(* The rule                                                                *)
(***************************************************************************)
\* Variants of run, each with one plausible defect, used to show that the
\* properties below do constrain run.

\* Requires a merged class for the with-single-extends exemption.
run_MergeRequired(self, n, ctx) ==
    IF /\ IsEmptyInterface(n)
       /\ Len(n.extendsList) = 1
       /\ self.allowInterfaces # "always"
       /\ ~(self.allowInterfaces = "with-single-extends"
            /\ MergeDetector(n.name, ctx.scope))
    THEN {n} ELSE {}

\* Reports every empty literal, also inside an intersection.
run_NoIntersectionExemption(self, n, ctx) ==
    IF IsEmptyLiteral(n) /\ self.allowObjectTypes = "never" THEN {n} ELSE {}

\* Reports every empty interface, however many interfaces it extends.
run_AnyExtendsCount(self, n, ctx) ==
    IF IsEmptyInterface(n) /\ self.allowInterfaces = "never" THEN {n} ELSE {}

\* Skips the check for members.
run_NoTrivialityGate(self, n, ctx) ==
    IF /\ IsInterface(n) \/ IsTypeLiteral(n)
       /\ Len(n.extendsList) = 0
       /\ n.enclosingShape # "Intersection"
    THEN {n} ELSE {}

\* Reports at most one node per file.
run_FirstOnly(self, n, ctx) ==
    IF /\ IsEmptyInterface(n)
       /\ Len(n.extendsList) = 0
       /\ ctx.diagnostics = {}
    THEN {n} ELSE {}

\* fn run<'a>(&self, node: &AstNode<'a>, ctx: &LintContext<'a>) {}
\* The result is the set of nodes run reports through ctx.
run(self, n, ctx) == {}

\* A node is reported iff run pushed a diagnostic for it.
VerdictOf(emitted) == IF emitted = {} THEN "Allow" ELSE "Report"

Init ==
    /\ config \in Configs
    /\ scope \in Scopes
    /\ node = NoNode
    /\ verdict = "None"
    /\ diagnostics = {}
    /\ nruns = 0

\* The host calls the rule on one node of the file.
RunOnNode(n) ==
    /\ nruns < MaxRuns
    /\ LET emitted == run(config, n, LintContext(scope, diagnostics))
       IN  /\ diagnostics' = diagnostics \cup emitted
           /\ verdict' = VerdictOf(emitted)
    /\ node' = n
    /\ nruns' = nruns + 1
    /\ UNCHANGED <<config, scope>>

Next == \E n \in Nodes : RunOnNode(n)

Spec == Init /\ [][Next]_vars

(***************************************************************************)
(* Properties                                                              *)
(***************************************************************************)
Evaluated == node # NoNode

SingleExtends(n, target) == IsEmptyInterface(n) /\ n.extendsList = <<target>>

\* C1: an empty interface with one plain extends entry, not exempted by name,
\* is allowed iff allowInterfaces is "always", or it is "with-single-extends"
\* and a class declaration of the same name is in scope; otherwise reported.
C1_SinglePlainExtends ==
    (Evaluated /\ SingleExtends(node, "PlainInterfaceRef") /\ ~NameExempt(config, node))
    => /\ verdict \in {"Allow", "Report"}
       /\ verdict = "Allow" <=>
            \/ config.allowInterfaces = "always"
            \/ /\ config.allowInterfaces = "with-single-extends"
               /\ MergeDetector(node.name, scope)

\* C2: with allowInterfaces = "with-single-extends", an empty interface with one
\* plain extends entry gets no diagnostic even though no class of its name is
\* declared in its scope.
C2_WithSingleExtendsNoClass ==
    (/\ Evaluated
     /\ config.allowInterfaces = "with-single-extends"
     /\ SingleExtends(node, "PlainInterfaceRef")
     /\ ~MergeDetector(node.name, scope))
    => verdict = "Allow" /\ node \notin diagnostics

C2_Witness ==
    /\ Evaluated
    /\ config.allowInterfaces = "with-single-extends"
    /\ config.allowWithName = NoPattern
    /\ SingleExtends(node, "PlainInterfaceRef")
    /\ scope.classKind = "none"
    /\ verdict = "Allow"

\* C3: an empty interface without extends entries, not exempted by name, is
\* reported under "never" and "with-single-extends" and not under "always".
C3_NoExtends ==
    (Evaluated /\ IsEmptyInterface(node) /\ node.extendsList = << >>
       /\ ~NameExempt(config, node))
    => (verdict = "Report" <=> config.allowInterfaces # "always")

\* C4: an empty interface whose one extends entry has type arguments, not
\* exempted by name, is reported under "never" and "with-single-extends",
\* merged class or not, and allowed only under "always".
C4_SingleParameterizedExtends ==
    (Evaluated /\ SingleExtends(node, "ParameterizedRef") /\ ~NameExempt(config, node))
    => (verdict = "Report" <=> config.allowInterfaces # "always")

\* C5: an empty type literal outside an intersection, not exempted by name, is
\* reported exactly when allowObjectTypes = "never", whatever allowInterfaces is.
C5_EmptyLiteral ==
    (Evaluated /\ IsEmptyLiteral(node) /\ node.enclosingShape # "Intersection"
       /\ ~NameExempt(config, node))
    => (verdict = "Report" <=> config.allowObjectTypes = "never")

\* C6: allowWithName exempts exactly the named declarations whose name the
\* pattern matches; a declaration whose name does not match is not exempted,
\* and a literal inside a union is never exempted, even under a matching alias.
C6_NameExemption ==
    Evaluated =>
      /\ (IsEmpty(node) /\ NameExempt(config, node)) => verdict = "Allow"
      /\ (/\ IsEmptyLiteral(node)
          /\ node.enclosingShape = "AliasValue"
          /\ ~NameExempt(config, node)
          /\ config.allowObjectTypes = "never") => verdict = "Report"
      /\ (/\ IsEmptyInterface(node)
          /\ node.extendsList = << >>
          /\ ~NameExempt(config, node)
          /\ config.allowInterfaces = "never") => verdict = "Report"
      /\ (/\ IsEmptyLiteral(node)
          /\ node.enclosingShape = "Union"
          /\ config.allowObjectTypes = "never") => verdict = "Report"

\* C7: an empty type literal that is a member of an intersection is allowed
\* under every combination of options.
C7_IntersectionMember ==
    (Evaluated /\ IsEmptyLiteral(node) /\ node.enclosingShape = "Intersection")
    => verdict = "Allow" /\ node \notin diagnostics

C7_Witness ==
    /\ Evaluated
    /\ IsEmptyLiteral(node) /\ node.enclosingShape = "Intersection"
    /\ config = DefaultConfig
    /\ verdict = "Allow"

\* C8: an empty interface with two or more extends entries is allowed under
\* every combination of options, plain or parameterized entries alike.
C8_MultipleExtends ==
    (Evaluated /\ IsEmptyInterface(node) /\ Len(node.extendsList) >= 2)
    => verdict = "Allow" /\ node \notin diagnostics

C8_Witness ==
    /\ Evaluated
    /\ IsEmptyInterface(node) /\ Len(node.extendsList) >= 2
    /\ \E i \in DOMAIN node.extendsList : node.extendsList[i] = "ParameterizedRef"
    /\ config = DefaultConfig
    /\ verdict = "Allow"

\* C9: a node with members, and a node that is no empty-object construct
\* (`object`, `Object`), is allowed under every combination of options.
C9_NonEmptySite ==
    (Evaluated /\ (~IsEmpty(node) \/ ~(IsInterface(node) \/ IsTypeLiteral(node))))
    => verdict = "Allow" /\ node \notin diagnostics

C9_Witness ==
    /\ Evaluated
    /\ IsInterface(node) /\ ~IsEmpty(node) /\ node.extendsList = << >>
    /\ config = DefaultConfig
    /\ verdict = "Allow"
    /\ nruns = MaxRuns

\* C10: what a call of run reports is what run reports for that node and those
\* options in a file where nothing has been reported yet, and a call adds
\* nothing else to the diagnostics: the outcome does not depend on the calls
\* made before it, nor on their order.
C10_OrderIndependent ==
    [][LET alone == run(config, node', LintContext(scope, {}))
       IN  /\ verdict' = VerdictOf(alone)
           /\ diagnostics' = diagnostics \cup alone]_vars

C10_Witness ==
    /\ nruns = MaxRuns
    /\ IsEmptyInterface(node) /\ node.extendsList = << >>
    /\ config = DefaultConfig
    /\ verdict = VerdictOf(run(config, node, LintContext(scope, {})))

====
